---- MODULE Spec2Model ----
(***************************************************************************)
(* A model of lru_dict (src/lru_dict/lru_dict.py): a sized mapping that    *)
(* keeps its keys in a Python list ordered by last access, oldest first.   *)
(*                                                                         *)
(* A store is a record [size, _stack, _data]: the private __size, the      *)
(* access-order list and the dict.  Every method is an operator from a     *)
(* store (and arguments) to an outcome [self, exc, ret]: the store as the  *)
(* call leaves it, the exception it raised ("None" when it returned) and   *)
(* the returned value (<<>> for no value, <<v>> for v).  The operators     *)
(* follow the statements of the methods in order, so a call that raises    *)
(* half-way leaves the store as far as the code had changed it.            *)
(***************************************************************************)
EXTENDS Integers, Sequences, FiniteSets, TLC

VARIABLES
    constructed,  \* whether lru_dict(...) has returned a store
    self,         \* the store: [size, _stack, _data]
    prev,         \* the store as it was when the last call started
    last,         \* the last call: [op, args, exc, ret]
    written,      \* <<"keys", q>>: the store was built empty and has since only been
                  \* written, with the distinct keys q in this order; else <<"other">>
    other,        \* a second store, for the calls that take two (==, !=, lru_dict(n, S))
    sync,         \* how the two stores were driven: "same" (same capacity, the same
                  \* writes), "access" (then one more read or write of self), "other"
    accessed      \* the keys read or written with success, each once, oldest access first

vars == <<constructed, self, prev, last, written, other, sync, accessed>>

\* ------------------------------------------------------------------ bounds

NKeys == 3
NValues == 2
MaxSize == 3
MaxExisting == 2

Keys == 1..NKeys
Values == 1..NValues
\* the sizes a caller may pass, valid or not
Sizes == (0 - 1)..MaxSize

Pairs == Keys \X Values

RECURSIVE SeqsUpTo(_, _)
SeqsUpTo(S, n) ==
    IF n = 0 THEN {<<>>}
    ELSE LET shorter == SeqsUpTo(S, n - 1)
         IN shorter \cup {Append(q, x) : q \in {p \in shorter : Len(p) = n - 1}, x \in S}

\* the `existing` arguments: None, or an iterable of key-value pairs
Existing == {<<"None">>} \cup {<<"pairs", q>> : q \in SeqsUpTo(Pairs, MaxExisting)}

\* ------------------------------------------------- Python lists and dicts

Range(seq) == {seq[i] : i \in 1..Len(seq)}

\* list.index(key) as a 0-based position; the caller checks membership first
list_index(seq, key) == (CHOOSE i \in 1..Len(seq) :
                            /\ seq[i] = key
                            /\ \A j \in 1..(i - 1) : seq[j] # key) - 1

\* list.pop(index), 0-based: the list without that position
list_pop(seq, index) ==
    [i \in 1..(Len(seq) - 1) |-> IF i <= index THEN seq[i] ELSE seq[i + 1]]

\* a slice bound as Python normalises it: negative counts from the end,
\* and the result is clamped to 0..len
slice_bound(n, len) ==
    IF n < 0 THEN (IF n + len < 0 THEN 0 ELSE n + len)
    ELSE (IF n > len THEN len ELSE n)

\* seq[:stop]
slice_to(seq, stop) == SubSeq(seq, 1, slice_bound(stop, Len(seq)))

\* seq[start:]
slice_from(seq, start) == SubSeq(seq, slice_bound(start, Len(seq)) + 1, Len(seq))

\* d[key] = value
dict_set(d, key, value) ==
    [x \in (DOMAIN d) \cup {key} |-> IF x = key THEN value ELSE d[x]]

\* del d[key], for a key of d
dict_del(d, key) == [x \in (DOMAIN d) \ {key} |-> d[x]]

\* ---------------------------------------------------------------- outcomes

Return(s, v) == [self |-> s, exc |-> "None", ret |-> v]
Raise(s, e) == [self |-> s, exc |-> e, ret |-> <<>>]

\* ------------------------------------------------------------ the methods

\* lru_dict.__contains__: checked in the dict
__contains__(s, value) == value \in DOMAIN s._data

\* lru_dict.__len__: the length of the stack
__len__(s) == Len(s._stack)

\* a fault for C6: peek going through the key bump of __getitem__
peek_through_bump(s, key) ==
    IF key \notin Range(s._stack) THEN Raise(s, "KeyError")
    ELSE LET index == list_index(s._stack, key)
         IN Return([s EXCEPT !._stack = Append(list_pop(@, index), @[index + 1])],
                   <<s._data[key]>>)

\* lru_dict.peek
peek(s, key) ==
    IF key \in DOMAIN s._data THEN Return(s, <<s._data[key]>>)
    ELSE Raise(s, "KeyError")

\* a fault for C5: the key swapped with the newest one instead of moved
make_key_newest_by_swap(s, key) ==
    IF key \notin Range(s._stack) THEN Raise(s, "KeyError")
    ELSE LET i == list_index(s._stack, key) + 1
             n == Len(s._stack)
         IN Return([s EXCEPT !._stack = [@ EXCEPT ![i] = s._stack[n], ![n] = key]], <<>>)

\* a fault for C9: the ValueError of list.index not turned into a KeyError
make_key_newest_unconverted(s, key) ==
    IF key \notin Range(s._stack) THEN Raise(s, "ValueError")
    ELSE LET index == list_index(s._stack, key)
         IN Return([s EXCEPT !._stack = Append(list_pop(@, index), @[index + 1])], <<>>)

\* lru_dict._make_key_newest
_make_key_newest(s, key) ==
    IF key \notin Range(s._stack) THEN Raise(s, "KeyError")
    ELSE LET index == list_index(s._stack, key)
         IN Return([s EXCEPT !._stack = Append(list_pop(@, index), @[index + 1])], <<>>)

\* a fault for C2: the key removed from the dict and left in the stack
delitem_dict_only(s, key) ==
    IF key \notin DOMAIN s._data THEN Raise(s, "KeyError")
    ELSE Return([s EXCEPT !._data = dict_del(@, key)], <<>>)

\* a fault for C8: the newest key popped from the stack, whatever the key
delitem_pops_newest(s, key) ==
    IF key \notin DOMAIN s._data THEN Raise(s, "KeyError")
    ELSE LET s1 == [s EXCEPT !._data = dict_del(@, key)]
         IN IF key \notin Range(s1._stack) THEN Raise(s1, "ValueError")
            ELSE Return([s1 EXCEPT !._stack = list_pop(@, Len(@) - 1)], <<>>)

\* lru_dict.__delitem__
__delitem__(s, key) ==
    IF key \notin DOMAIN s._data THEN Raise(s, "KeyError")
    ELSE LET s1 == [s EXCEPT !._data = dict_del(@, key)]
         IN IF key \notin Range(s1._stack) THEN Raise(s1, "ValueError")
            ELSE Return([s1 EXCEPT !._stack = list_pop(@, list_index(@, key))], <<>>)

\* a fault for C19: the value returned without the key being made the newest
getitem_without_bump(s, key) ==
    IF key \in DOMAIN s._data THEN Return(s, <<s._data[key]>>)
    ELSE Raise(s, "KeyError")

\* lru_dict.__getitem__
__getitem__(s, key) ==
    LET r == _make_key_newest(s, key)
    IN IF r.exc # "None" THEN r
       ELSE IF key \in DOMAIN r.self._data THEN Return(r.self, <<r.self._data[key]>>)
       ELSE Raise(r.self, "KeyError")

\* a fault for C1: no eviction after the insertion
setitem_without_eviction(s, key, value) ==
    LET r == IF __contains__(s, key) THEN _make_key_newest(s, key)
             ELSE Return([s EXCEPT !._stack = Append(@, key)], <<>>)
    IN IF r.exc # "None" THEN r
       ELSE Return([r.self EXCEPT !._data = dict_set(@, key, value)], <<>>)

\* a fault for C3: the newest key evicted instead of the oldest
setitem_evicts_newest(s, key, value) ==
    LET r == IF __contains__(s, key) THEN _make_key_newest(s, key)
             ELSE Return([s EXCEPT !._stack = Append(@, key)], <<>>)
    IN IF r.exc # "None" THEN r
       ELSE LET s2 == [r.self EXCEPT !._data = dict_set(@, key, value)]
            IN IF Len(s2._stack) > s2.size
               THEN __delitem__(s2, s2._stack[Len(s2._stack)])
               ELSE Return(s2, <<>>)

\* a fault for C4: a key already present keeps its place in the stack
setitem_without_bump(s, key, value) ==
    LET r == IF __contains__(s, key) THEN Return(s, <<>>)
             ELSE Return([s EXCEPT !._stack = Append(@, key)], <<>>)
    IN IF r.exc # "None" THEN r
       ELSE LET s2 == [r.self EXCEPT !._data = dict_set(@, key, value)]
            IN IF Len(s2._stack) > s2.size THEN __delitem__(s2, s2._stack[1])
               ELSE Return(s2, <<>>)

\* a fault for C18: eviction as soon as the store is full, >= for >
setitem_evicts_when_full(s, key, value) ==
    LET r == IF __contains__(s, key) THEN _make_key_newest(s, key)
             ELSE Return([s EXCEPT !._stack = Append(@, key)], <<>>)
    IN IF r.exc # "None" THEN r
       ELSE LET s2 == [r.self EXCEPT !._data = dict_set(@, key, value)]
            IN IF Len(s2._stack) >= s2.size THEN __delitem__(s2, s2._stack[1])
               ELSE Return(s2, <<>>)

\* a fault for C20: a key already present swapped with the newest key
setitem_bump_by_swap(s, key, value) ==
    LET r == IF __contains__(s, key) THEN make_key_newest_by_swap(s, key)
             ELSE Return([s EXCEPT !._stack = Append(@, key)], <<>>)
    IN IF r.exc # "None" THEN r
       ELSE LET s2 == [r.self EXCEPT !._data = dict_set(@, key, value)]
            IN IF Len(s2._stack) > s2.size THEN __delitem__(s2, s2._stack[1])
               ELSE Return(s2, <<>>)

\* lru_dict.__setitem__
__setitem__(s, key, value) ==
    LET r == IF __contains__(s, key) THEN _make_key_newest(s, key)
             ELSE Return([s EXCEPT !._stack = Append(@, key)], <<>>)
    IN IF r.exc # "None" THEN r
       ELSE LET s2 == [r.self EXCEPT !._data = dict_set(@, key, value)]
            IN IF Len(s2._stack) > s2.size THEN __delitem__(s2, s2._stack[1])
               ELSE Return(s2, <<>>)

\* the loop of resize: del self._data[key] for each key of a list
RECURSIVE del_each(_, _)
del_each(s, keys) ==
    IF keys = <<>> THEN Return(s, <<>>)
    ELSE IF Head(keys) \notin DOMAIN s._data THEN Raise(s, "KeyError")
    ELSE del_each([s EXCEPT !._data = dict_del(@, Head(keys))], Tail(keys))

\* a fault for C7: the stack cut to its first new_size keys, self._stack[:self.size]
resize_keeps_front(s, new_size) ==
    IF new_size < 1 THEN Raise(s, "ValueError")
    ELSE LET s1 == [s EXCEPT !.size = new_size]
         IN IF __len__(s1) > s1.size
            THEN LET r == del_each(s1, slice_to(s1._stack, 0 - s1.size))
                 IN IF r.exc # "None" THEN r
                    ELSE Return([r.self EXCEPT !._stack = slice_to(@, s1.size)], <<>>)
            ELSE Return(s1, <<>>)

\* a fault for C10: the size stored before it is checked
resize_stores_first(s, new_size) ==
    LET s1 == [s EXCEPT !.size = new_size]
    IN IF new_size < 1 THEN Raise(s1, "ValueError")
       ELSE IF __len__(s1) > s1.size
            THEN LET r == del_each(s1, slice_to(s1._stack, 0 - s1.size))
                 IN IF r.exc # "None" THEN r
                    ELSE Return([r.self EXCEPT !._stack = slice_from(@, 0 - s1.size)], <<>>)
            ELSE Return(s1, <<>>)

\* lru_dict.resize
resize(s, new_size) ==
    IF new_size < 1 THEN Raise(s, "ValueError")
    ELSE LET s1 == [s EXCEPT !.size = new_size]
         IN IF __len__(s1) > s1.size
            THEN LET r == del_each(s1, slice_to(s1._stack, 0 - s1.size))
                 IN IF r.exc # "None" THEN r
                    ELSE Return([r.self EXCEPT !._stack = slice_from(@, 0 - s1.size)], <<>>)
            ELSE Return(s1, <<>>)

\* ItemsView.__iter__ over ProxiedPeek: the iterator of the stack is followed by
\* position, and each value is fetched with peek
RECURSIVE items_from(_, _, _)
items_from(s, i, acc) ==
    IF i >= Len(s._stack) THEN Return(s, acc)
    ELSE LET key == s._stack[i + 1]
             r == peek(s, key)
         IN IF r.exc # "None" THEN Raise(r.self, r.exc)
            ELSE items_from(r.self, i + 1, Append(acc, <<key, r.ret[1]>>))

\* lru_dict.items, traversed to its end: list(cache.items())
items(s) == items_from(s, 0, <<>>)

\* a fault for C13: the views laid over the store itself, so that a value
\* is fetched with __getitem__
RECURSIVE view_through_getitem(_, _, _, _, _)
view_through_getitem(s, kind, i, n, acc) ==
    IF n = 0 \/ i >= Len(s._stack) THEN Return(s, acc)
    ELSE LET key == s._stack[i + 1]
         IN IF kind \in {"iter", "keys"}
            THEN view_through_getitem(s, kind, i + 1, n - 1, Append(acc, key))
            ELSE LET r == __getitem__(s, key)
                 IN IF r.exc # "None" THEN Raise(r.self, r.exc)
                    ELSE view_through_getitem(r.self, kind, i + 1, n - 1,
                             Append(acc, IF kind = "values" THEN r.ret[1]
                                         ELSE <<key, r.ret[1]>>))

\* n calls of next() on an iterator of the store: iter(cache), or an iterator
\* of KeysView, ValuesView or ItemsView over ProxiedPeek.  The iterator of the
\* stack is followed by position i; values and items fetch each value with
\* peek; acc is what was yielded so far.  The walk ends at the end of the stack.
RECURSIVE view_from(_, _, _, _, _)
view_from(s, kind, i, n, acc) ==
    IF n = 0 \/ i >= Len(s._stack) THEN Return(s, acc)
    ELSE LET key == s._stack[i + 1]
         IN IF kind \in {"iter", "keys"}
            THEN view_from(s, kind, i + 1, n - 1, Append(acc, key))
            ELSE LET r == peek(s, key)
                 IN IF r.exc # "None" THEN Raise(r.self, r.exc)
                    ELSE view_from(r.self, kind, i + 1, n - 1,
                             Append(acc, IF kind = "values" THEN r.ret[1]
                                         ELSE <<key, r.ret[1]>>))

\* a fault for C14: None returned for an empty store
lru_or_none(s) ==
    IF Len(s._stack) = 0 THEN Return(s, <<>>) ELSE Return(s, <<s._stack[1]>>)

\* lru_dict.lru: self._stack[0]
lru(s) ==
    IF Len(s._stack) = 0 THEN Raise(s, "IndexError") ELSE Return(s, <<s._stack[1]>>)

\* lru_dict.mru: self._stack[-1]
mru(s) ==
    IF Len(s._stack) = 0 THEN Raise(s, "IndexError")
    ELSE Return(s, <<s._stack[Len(s._stack)]>>)

\* lru_dict.size, read
size_getter(s) == Return(s, <<s.size>>)

\* a fault for C17: a setter that stores the value
size_setter_assigns(s, value) == Return([s EXCEPT !.size = value], <<>>)

\* lru_dict.size, assigned
size_setter(s, value) == Raise(s, "AttributeError")

\* lru_dict.filled: len(self)
filled(s) == __len__(s)

\* zip(x, y): the pairs of the elements at the same position, to the shorter end
zip(x, y) ==
    [i \in 1..(IF Len(x) < Len(y) THEN Len(x) ELSE Len(y)) |-> <<x[i], y[i]>>]

\* all(s == o for s, o in pairs)
all_equal(pairs) == \A i \in 1..Len(pairs) : pairs[i][1] = pairs[i][2]

\* the outcome of a call on two stores
Return2(a, b, v) == [self |-> a, other |-> b, exc |-> "None", ret |-> v]

\* a fault for C11: the two dicts compared, whatever the order of the stacks
eq_ignores_order(a, b) ==
    Return2(a, b, <<a.size = b.size /\ filled(a) = filled(b) /\ a._data = b._data>>)

\* a fault for C12: the comparison of the items left out
eq_without_items(a, b) ==
    Return2(a, b, <<a.size = b.size /\ filled(a) = filled(b)>>)

\* lru_dict.__eq__ for another lru_dict; `and` stops at the first false operand
__eq__(a, b) ==
    IF a.size # b.size THEN Return2(a, b, <<FALSE>>)
    ELSE IF filled(a) # filled(b) THEN Return2(a, b, <<FALSE>>)
    ELSE LET ia == items(a)
             ib == items(b)
         IN Return2(ia.self, ib.self, <<all_equal(zip(ia.ret, ib.ret))>>)

\* lru_dict.__ne__ for another lru_dict
__ne__(a, b) ==
    LET r == __eq__(a, b)
    IN Return2(r.self, r.other, <<~r.ret[1]>>)

\* a fault for C15: a key already loaded keeps its first value and place
RECURSIVE update_keeps_first(_, _)
update_keeps_first(s, pairs) ==
    IF pairs = <<>> THEN Return(s, <<>>)
    ELSE IF __contains__(s, Head(pairs)[1]) THEN update_keeps_first(s, Tail(pairs))
    ELSE LET r == __setitem__(s, Head(pairs)[1], Head(pairs)[2])
         IN IF r.exc # "None" THEN r ELSE update_keeps_first(r.self, Tail(pairs))

\* MutableMapping.update over an iterable of pairs: self[key] = value for each
RECURSIVE update(_, _)
update(s, pairs) ==
    IF pairs = <<>> THEN Return(s, <<>>)
    ELSE LET r == __setitem__(s, Head(pairs)[1], Head(pairs)[2])
         IN IF r.exc # "None" THEN r ELSE update(r.self, Tail(pairs))

\* the store before lru_dict.__init__ has run: no attribute is set
NoStore == [size |-> 0, _stack |-> <<>>, _data |-> <<>>]

\* lru_dict.__init__
__init__(size, existing) ==
    IF size < 1 THEN Raise(NoStore, "ValueError")
    ELSE LET s == [size |-> size, _stack |-> <<>>, _data |-> <<>>]
         IN IF existing[1] = "None" THEN Return(s, <<>>)
            ELSE update(s, existing[2])

\* MutableMapping.update over a Mapping that is a store:
\*     for key in other: self[key] = other[key]
\* The iterator of src._stack is followed by position i over the list as it
\* is at each step; other[key] is src.__getitem__(key), evaluated before the
\* assignment.  The outcome holds src in `self` and the store loaded in `other`.
RECURSIVE update_from_store(_, _, _)
update_from_store(s, src, i) ==
    IF i >= Len(src._stack) THEN Return2(src, s, <<>>)
    ELSE LET key == src._stack[i + 1]
             g == __getitem__(src, key)
         IN IF g.exc # "None"
            THEN [self |-> g.self, other |-> s, exc |-> g.exc, ret |-> <<>>]
            ELSE LET w == __setitem__(s, key, g.ret[1])
                 IN IF w.exc # "None"
                    THEN [self |-> g.self, other |-> w.self, exc |-> w.exc, ret |-> <<>>]
                    ELSE update_from_store(w.self, g.self, i + 1)

\* lru_dict.__init__ with a store as `existing`
init_from_store(size, src) ==
    IF size < 1 THEN [self |-> src, other |-> NoStore, exc |-> "ValueError", ret |-> <<>>]
    ELSE update_from_store([size |-> size, _stack |-> <<>>, _data |-> <<>>], src, 0)

\* ------------------------------------------------------------ the actions

Call(op, args, r) ==
    /\ self' = r.self
    /\ prev' = self
    /\ last' = [op |-> op, args |-> args, exc |-> r.exc, ret |-> r.ret]
    /\ UNCHANGED <<other, sync, accessed>>

\* lru_dict(size, existing), called once: a store exists once __init__ returns
New(size, existing) ==
    /\ ~constructed
    /\ last.op = "none"
    /\ LET r == __init__(size, existing)
       IN /\ Call("new", <<size, existing>>, r)
          /\ constructed' = (r.exc = "None")
          /\ written' = IF r.exc = "None" /\ __len__(r.self) = 0
                        THEN <<"keys", <<>>>> ELSE <<"other">>

\* cache[key] = value
Write(key, value) ==
    /\ constructed
    /\ Call("write", <<key, value>>, __setitem__(self, key, value))
    /\ written' = IF written[1] = "keys" /\ key \notin Range(written[2])
                  THEN <<"keys", Append(written[2], key)>> ELSE <<"other">>
    /\ UNCHANGED constructed

\* cache[key]
Read(key) ==
    /\ constructed
    /\ Call("read", <<key>>, __getitem__(self, key))
    /\ written' = <<"other">>
    /\ UNCHANGED constructed

\* cache.peek(key)
Peek(key) ==
    /\ constructed
    /\ Call("peek", <<key>>, peek(self, key))
    /\ written' = <<"other">>
    /\ UNCHANGED constructed

\* del cache[key]
Delete(key) ==
    /\ constructed
    /\ Call("delete", <<key>>, __delitem__(self, key))
    /\ written' = <<"other">>
    /\ UNCHANGED constructed

\* key in cache
Contains(key) ==
    /\ constructed
    /\ Call("contains", <<key>>, Return(self, <<__contains__(self, key)>>))
    /\ written' = <<"other">>
    /\ UNCHANGED constructed

\* cache.resize(new_size)
Resize(new_size) ==
    /\ constructed
    /\ Call("resize", <<new_size>>, resize(self, new_size))
    /\ written' = <<"other">>
    /\ UNCHANGED constructed

\* list(cache.items())
Items ==
    /\ constructed
    /\ Call("items", <<>>, items(self))
    /\ written' = <<"other">>
    /\ UNCHANGED constructed

Init ==
    /\ constructed = FALSE
    /\ self = NoStore
    /\ prev = NoStore
    /\ last = [op |-> "none", args |-> <<>>, exc |-> "None", ret |-> <<>>]
    /\ written = <<"other">>
    /\ other = NoStore
    /\ sync = "other"
    /\ accessed = <<>>

Next ==
    \/ \E size \in Sizes, existing \in Existing : New(size, existing)
    \/ \E key \in Keys, value \in Values : Write(key, value)
    \/ \E key \in Keys : Read(key)
    \/ \E key \in Keys : Peek(key)
    \/ \E key \in Keys : Delete(key)
    \/ \E key \in Keys : Contains(key)
    \/ \E new_size \in Sizes : Resize(new_size)
    \/ Items

Spec == Init /\ [][Next]_vars

\* ------------------------------------------------------------ two stores
\* Two stores side by side, over keys 1..PairKeys, values 1..PairValues and
\* capacities 1..PairSize.  A run is a series of writes and reads followed by
\* at most one call that takes both stores; only that call is recorded in
\* `last` (and, where it changes self, the store before it in `prev`).

PairKeys == 2
PairValues == 2
PairSize == 2

PairKeySet == 1..PairKeys
PairValueSet == 1..PairValues
PairSizes == 1..PairSize

\* `last` after a write or a read of one of the two stores
Stepped == [op |-> "step", args |-> <<>>, exc |-> "None", ret |-> <<>>]

PairFrame == UNCHANGED <<constructed, written, accessed>>

\* a[key] = value; b[key] = value
PairWriteBoth(key, value) ==
    /\ last.op = "step"
    /\ self' = __setitem__(self, key, value).self
    /\ other' = __setitem__(other, key, value).self
    /\ sync' = IF sync = "same" THEN "same" ELSE "other"
    /\ last' = Stepped
    /\ prev' = NoStore
    /\ PairFrame

\* a[key] = value
PairWriteSelf(key, value) ==
    /\ last.op = "step"
    /\ self' = __setitem__(self, key, value).self
    /\ sync' = IF sync = "same" THEN "access" ELSE "other"
    /\ last' = Stepped
    /\ prev' = NoStore
    /\ UNCHANGED other
    /\ PairFrame

\* a[key]
PairReadSelf(key) ==
    /\ last.op = "step"
    /\ self' = __getitem__(self, key).self
    /\ sync' = IF sync = "same" THEN "access" ELSE "other"
    /\ last' = Stepped
    /\ prev' = NoStore
    /\ UNCHANGED other
    /\ PairFrame

\* b[key] = value
PairWriteOther(key, value) ==
    /\ last.op = "step"
    /\ other' = __setitem__(other, key, value).self
    /\ sync' = "other"
    /\ last' = Stepped
    /\ prev' = NoStore
    /\ UNCHANGED self
    /\ PairFrame

\* a == b and a != b; the two results are recorded
PairCompare ==
    /\ last.op = "step"
    /\ LET e == __eq__(self, other)
           n == __ne__(e.self, e.other)
       IN /\ self' = n.self
          /\ other' = n.other
          /\ last' = [op |-> "compare", args |-> <<>>, exc |-> "None",
                      ret |-> <<e.ret[1], n.ret[1]>>]
    /\ prev' = self
    /\ UNCHANGED sync
    /\ PairFrame

\* b = lru_dict(size, a)
PairCopy(size) ==
    /\ last.op = "step"
    /\ LET r == init_from_store(size, self)
       IN /\ self' = r.self
          /\ other' = r.other
          /\ last' = [op |-> "copy", args |-> <<size>>, exc |-> r.exc, ret |-> r.ret]
    /\ prev' = self
    /\ sync' = "other"
    /\ PairFrame

\* a = lru_dict(m), b = lru_dict(n)
PairInit ==
    /\ constructed = TRUE
    /\ self \in {__init__(n, <<"None">>).self : n \in PairSizes}
    /\ other \in {__init__(n, <<"None">>).self : n \in PairSizes}
    /\ sync = (IF self.size = other.size THEN "same" ELSE "other")
    /\ prev = NoStore
    /\ last = Stepped
    /\ written = <<"other">>
    /\ accessed = <<>>

PairNext ==
    \/ \E key \in PairKeySet, value \in PairValueSet : PairWriteBoth(key, value)
    \/ \E key \in PairKeySet, value \in PairValueSet : PairWriteSelf(key, value)
    \/ \E key \in PairKeySet : PairReadSelf(key)
    \/ \E key \in PairKeySet, value \in PairValueSet : PairWriteOther(key, value)
    \/ \E size \in PairSizes : PairCopy(size)
    \/ PairCompare

SpecPair == PairInit /\ [][PairNext]_vars

\* -------------------------------------------------- the calls that observe
\* A store built empty with a capacity of 1..MaxSize, changed by writes, reads,
\* deletes and resizes, of which `last` keeps the kind (and the outcome, and
\* the size of a resize), and then observed by one call, recorded in full in
\* `last`, with the store before it in `prev`.  A run ends with that call.

Kinds == {"iter", "keys", "values", "items"}

Changing == {"init", "write", "read", "delete", "resize"}

ObsFrame == UNCHANGED <<constructed, written, other, sync, accessed>>

\* a call that may change the store
Change(op, args, r) ==
    /\ last.op \in Changing
    /\ self' = r.self
    /\ prev' = NoStore
    /\ last' = [op |-> op, args |-> args, exc |-> r.exc, ret |-> <<>>]
    /\ ObsFrame

\* a call that observes the store
Observe(op, args, r) ==
    /\ last.op \in Changing
    /\ self' = r.self
    /\ prev' = self
    /\ last' = [op |-> op, args |-> args, exc |-> r.exc, ret |-> r.ret]
    /\ ObsFrame

ObsWrite(key, value) == Change("write", <<>>, __setitem__(self, key, value))
ObsRead(key) == Change("read", <<>>, __getitem__(self, key))
ObsDelete(key) == Change("delete", <<>>, __delitem__(self, key))
ObsResize(new_size) == Change("resize", <<new_size>>, resize(self, new_size))

\* n calls of next() on iter(cache), iter(cache.keys()), iter(cache.values())
\* or iter(cache.items()); n at or above the length is list(...)
ObsTraverse(kind, n) == Observe("traverse", <<kind, n>>, view_from(self, kind, 0, n, <<>>))
ObsPeek(key) == Observe("peek", <<key>>, peek(self, key))
ObsContains(key) == Observe("contains", <<key>>, Return(self, <<__contains__(self, key)>>))
ObsLru == Observe("lru", <<>>, lru(self))
ObsMru == Observe("mru", <<>>, mru(self))
ObsFilled == Observe("filled", <<>>, Return(self, <<filled(self)>>))
ObsSize == Observe("size", <<>>, size_getter(self))
ObsSetSize(value) == Observe("setsize", <<value>>, size_setter(self, value))

ObsInit ==
    /\ constructed = TRUE
    /\ self \in {__init__(n, <<"None">>).self : n \in 1..MaxSize}
    /\ prev = NoStore
    /\ last = [op |-> "init", args |-> <<>>, exc |-> "None", ret |-> <<>>]
    /\ written = <<"other">>
    /\ other = NoStore
    /\ sync = "other"
    /\ accessed = <<>>

ObsNext ==
    \/ \E key \in Keys, value \in Values : ObsWrite(key, value)
    \/ \E key \in Keys : ObsRead(key)
    \/ \E key \in Keys : ObsDelete(key)
    \/ \E new_size \in Sizes : ObsResize(new_size)
    \/ \E kind \in Kinds, n \in 0..MaxSize : ObsTraverse(kind, n)
    \/ \E key \in Keys : ObsPeek(key)
    \/ \E key \in Keys : ObsContains(key)
    \/ ObsLru
    \/ ObsMru
    \/ ObsFilled
    \/ ObsSize
    \/ \E value \in Sizes : ObsSetSize(value)

SpecObserve == ObsInit /\ [][ObsNext]_vars

\* ------------------------------------------------------ the access history
\* A store built empty with a capacity of 1..MaxSize.  `accessed` lists the
\* keys in the order of their latest write or read that returned, oldest
\* first; no other call touches it.  `last` keeps the kind of the call, its
\* outcome and, in `dropped`, the keys the call removed from the store.

\* the history after a write or a read of key has returned
Touched(key) == Append(SelectSeq(accessed, LAMBDA x : x # key), key)

AccFrame == UNCHANGED <<constructed, prev, written, other, sync>>

AccCall(op, r) ==
    /\ self' = r.self
    /\ last' = [op |-> op, args |-> <<>>, exc |-> r.exc, ret |-> <<>>,
                dropped |-> Range(self._stack) \ Range(r.self._stack)]
    /\ AccFrame

AccWrite(key, value) ==
    LET r == __setitem__(self, key, value)
    IN /\ AccCall("write", r)
       /\ accessed' = IF r.exc = "None" THEN Touched(key) ELSE accessed

AccRead(key) ==
    LET r == __getitem__(self, key)
    IN /\ AccCall("read", r)
       /\ accessed' = IF r.exc = "None" THEN Touched(key) ELSE accessed

AccPeek(key) == AccCall("peek", peek(self, key)) /\ UNCHANGED accessed
AccContains(key) ==
    AccCall("contains", Return(self, <<__contains__(self, key)>>)) /\ UNCHANGED accessed
AccItems == AccCall("items", items(self)) /\ UNCHANGED accessed
AccDelete(key) == AccCall("delete", __delitem__(self, key)) /\ UNCHANGED accessed
AccResize(new_size) == AccCall("resize", resize(self, new_size)) /\ UNCHANGED accessed

AccInit ==
    /\ constructed = TRUE
    /\ self \in {__init__(n, <<"None">>).self : n \in 1..MaxSize}
    /\ accessed = <<>>
    /\ last = [op |-> "init", args |-> <<>>, exc |-> "None", ret |-> <<>>, dropped |-> {}]
    /\ prev = NoStore
    /\ written = <<"other">>
    /\ other = NoStore
    /\ sync = "other"

AccNext ==
    \/ \E key \in Keys, value \in Values : AccWrite(key, value)
    \/ \E key \in Keys : AccRead(key)
    \/ \E key \in Keys : AccPeek(key)
    \/ \E key \in Keys : AccContains(key)
    \/ AccItems
    \/ \E key \in Keys : AccDelete(key)
    \/ \E new_size \in Sizes : AccResize(new_size)

SpecAccess == AccInit /\ [][AccNext]_vars

\* ------------------------------------------------- words for the properties

\* the key, the value and the size the last call was given
LastKey == last.args[1]
LastValue == last.args[2]
LastSize == last.args[1]

Succeeded == last.exc = "None"
Unchanged == self = prev

NoDuplicates(seq) == \A i, j \in 1..Len(seq) : seq[i] = seq[j] => i = j

\* a sequence without the occurrences of one key, the rest in their order
Without(seq, key) == SelectSeq(seq, LAMBDA x : x # key)

\* d and e hold the same value for every key of K
SameValues(d, e, K) == \A x \in K : d[x] = e[x]

\* ------------------------------------------------------------------- C1

\* C1: in every state of a constructed store, after any call (write, read,
\* peek, delete, resize, contains, a traversal of items), returned or raised,
\* the number of entries is at most the capacity.
C1_CapacityInvariant == constructed => __len__(self) <= self.size

\* a shrinking resize has just cut a store down to exactly its new capacity
C1_Witness ==
    /\ constructed
    /\ last.op = "resize"
    /\ Succeeded
    /\ __len__(prev) > self.size
    /\ __len__(self) = self.size

\* ------------------------------------------------------------------- C2

\* C2: in every state of a constructed store the stack holds no key twice,
\* its keys are exactly the keys of the dict, both have the same length, and
\* `key in cache` is true exactly for the keys of the stack.
C2_StructureConsistent ==
    constructed =>
        /\ NoDuplicates(self._stack)
        /\ Range(self._stack) = DOMAIN self._data
        /\ Len(self._stack) = Cardinality(DOMAIN self._data)
        /\ \A k \in Keys : __contains__(self, k) <=> k \in Range(self._stack)

\* a key in the middle of a three-entry store has just been deleted
C2_Witness ==
    /\ constructed
    /\ last.op = "delete"
    /\ Succeeded
    /\ Len(prev._stack) = 3
    /\ prev._stack[2] = LastKey
    /\ Len(self._stack) = 2

\* ------------------------------------------------------------------- C3

\* C3: a write of an absent key into a full store removes exactly the key that
\* was first in the stack, keeps every other key and holds the new key; and
\* after size+1 writes of distinct keys into a store built empty (by single
\* writes, or by the constructor from size+1 pairs) the first-written key is
\* absent, the others are present and the second-written key is the oldest.
C3_EvictionCorrect ==
    /\ (/\ last.op = "write"
        /\ LastKey \notin DOMAIN prev._data
        /\ __len__(prev) = prev.size)
       => /\ Succeeded
          /\ ~__contains__(self, prev._stack[1])
          /\ __contains__(self, LastKey)
          /\ DOMAIN self._data = ((DOMAIN prev._data) \ {prev._stack[1]}) \cup {LastKey}
          /\ Range(self._stack) = DOMAIN self._data
    /\ (/\ constructed
        /\ written[1] = "keys"
        /\ Len(written[2]) = self.size + 1)
       => /\ ~__contains__(self, written[2][1])
          /\ \A i \in 2..Len(written[2]) : __contains__(self, written[2][i])
          /\ self._stack[1] = written[2][2]
    /\ (/\ last.op = "new"
        /\ Succeeded
        /\ last.args[2][1] = "pairs"
        /\ Len(last.args[2][2]) = last.args[1] + 1
        /\ NoDuplicates([i \in 1..Len(last.args[2][2]) |-> last.args[2][2][i][1]]))
       => LET pairs == last.args[2][2]
          IN /\ ~__contains__(self, pairs[1][1])
             /\ \A i \in 2..Len(pairs) : __contains__(self, pairs[i][1])
             /\ self._stack[1] = pairs[2][1]

\* three distinct keys have been written, one by one, into an empty store of
\* capacity two
C3_Witness ==
    /\ constructed
    /\ last.op = "write"
    /\ written[1] = "keys"
    /\ self.size = 2
    /\ Len(written[2]) = 3

\* ------------------------------------------------------------------- C4

\* C4: after any write(key, value) the call has returned, the key is present,
\* peek(key) gives the value written and the key is last in the stack (the
\* most recently used), whether the key was there before or not.
C4_RecencyOnWrite ==
    last.op = "write" =>
        /\ Succeeded
        /\ __contains__(self, LastKey)
        /\ peek(self, LastKey) = Return(self, <<LastValue>>)
        /\ __len__(self) >= 1
        /\ self._stack[Len(self._stack)] = LastKey

\* a key that was present, not the newest, and held another value has been
\* written again
C4_Witness ==
    /\ last.op = "write"
    /\ LastKey \in DOMAIN prev._data
    /\ prev._data[LastKey] # LastValue
    /\ prev._stack[1] = LastKey
    /\ Len(prev._stack) >= 2

\* ------------------------------------------------------------------- C5

\* C5: a read of a present key returns the value stored for it, makes the key
\* the last of the stack, keeps the other keys in their order and leaves the
\* dict and the capacity as they were.
C5_RecencyOnRead ==
    (last.op = "read" /\ LastKey \in DOMAIN prev._data) =>
        /\ Succeeded
        /\ last.ret = <<prev._data[LastKey]>>
        /\ self._stack = Append(Without(prev._stack, LastKey), LastKey)
        /\ self._data = prev._data
        /\ self.size = prev.size

\* the oldest of three keys has been read
C5_Witness ==
    /\ last.op = "read"
    /\ Succeeded
    /\ Len(prev._stack) = 3
    /\ prev._stack[1] = LastKey

\* ------------------------------------------------------------------- C6

\* C6: a peek of a present key returns the value stored for it and leaves the
\* whole store (stack, dict, capacity) as it was.
C6_PeekNonInterference ==
    (last.op = "peek" /\ LastKey \in DOMAIN prev._data) =>
        /\ Succeeded
        /\ last.ret = <<prev._data[LastKey]>>
        /\ self._stack = prev._stack
        /\ self._data = prev._data
        /\ self.size = prev.size

\* the oldest of at least two keys has been peeked
C6_Witness ==
    /\ last.op = "peek"
    /\ Succeeded
    /\ Len(prev._stack) >= 2
    /\ prev._stack[1] = LastKey

\* ------------------------------------------------------------------- C7

\* C7: resize(n) with n >= 1 sets the capacity to n; when n is below the
\* number of entries it removes exactly the first (count - n) keys of the stack
\* from the dict and the stack and keeps the last n keys, with their values,
\* in their order; otherwise it removes nothing and keeps the order.
C7_ResizeTruncation ==
    (last.op = "resize" /\ LastSize >= 1) =>
        LET count == Len(prev._stack)
            cut == IF LastSize < count THEN count - LastSize ELSE 0
            gone == {prev._stack[i] : i \in 1..cut}
        IN /\ Succeeded
           /\ self.size = LastSize
           /\ self._stack = SubSeq(prev._stack, cut + 1, count)
           /\ DOMAIN self._data = (DOMAIN prev._data) \ gone
           /\ SameValues(self._data, prev._data, DOMAIN self._data)
           /\ Len(self._stack) = count - cut

\* a store of three entries has been resized to one
C7_Witness ==
    /\ last.op = "resize"
    /\ Succeeded
    /\ Len(prev._stack) = 3
    /\ LastSize = 1

\* ------------------------------------------------------------------- C8

\* C8: a delete of a present key removes that key and no other from the dict
\* and the stack and keeps the values, the order of the remaining keys and the
\* capacity; deleting the oldest key makes the second-oldest the oldest.
C8_DeleteSemantics ==
    (last.op = "delete" /\ LastKey \in DOMAIN prev._data) =>
        /\ Succeeded
        /\ DOMAIN self._data = (DOMAIN prev._data) \ {LastKey}
        /\ SameValues(self._data, prev._data, DOMAIN self._data)
        /\ self._stack = Without(prev._stack, LastKey)
        /\ Len(self._stack) = Len(prev._stack) - 1
        /\ self.size = prev.size
        /\ (Len(prev._stack) >= 2 /\ prev._stack[1] = LastKey)
              => self._stack[1] = prev._stack[2]

\* the oldest of three keys has been deleted
C8_Witness ==
    /\ last.op = "delete"
    /\ Succeeded
    /\ Len(prev._stack) = 3
    /\ prev._stack[1] = LastKey

\* ------------------------------------------------------------------- C9

\* C9: read, peek and delete of an absent key raise KeyError and leave the
\* stack, the dict and the capacity exactly as they were.
C9_KeyNotFound ==
    (last.op \in {"read", "peek", "delete"} /\ LastKey \notin DOMAIN prev._data) =>
        /\ last.exc = "KeyError"
        /\ last.ret = <<>>
        /\ Unchanged

\* an absent key has been read from a store that holds other keys
C9_Witness ==
    /\ last.op = "read"
    /\ LastKey \notin DOMAIN prev._data
    /\ Len(prev._stack) >= 2

\* ------------------------------------------------------------------ C10

\* C10: a construction with a size below 1 raises ValueError and leaves no
\* store; a resize to a size below 1 raises ValueError and leaves the
\* capacity, the dict and the stack as they were; the capacity of a
\* constructed store is always at least 1.
C10_InvalidCapacity ==
    /\ (last.op = "new" /\ last.args[1] < 1)
          => (last.exc = "ValueError" /\ ~constructed /\ self = NoStore)
    /\ (last.op = "new" /\ last.args[1] >= 1) => (Succeeded /\ constructed)
    /\ (last.op = "resize" /\ LastSize < 1)
          => (last.exc = "ValueError" /\ Unchanged)
    /\ constructed => self.size >= 1

\* a resize to zero has been refused on a store that holds entries
C10_Witness ==
    /\ last.op = "resize"
    /\ LastSize = 0
    /\ Len(prev._stack) >= 2

\* ------------------------------------------------------------------ C11

\* the entries of a store in recency order, oldest first
Entries(s) == [i \in 1..Len(s._stack) |-> <<s._stack[i], s._data[s._stack[i]]>>]

\* C11: a == b is true exactly when the capacities are equal, the numbers of
\* entries are equal and the i-th (key, value) pair of a, oldest first, is the
\* i-th pair of b for every i; a != b is the negation of a == b; the
\* comparison leaves both stores as they were.
C11_EqualityDefinition ==
    last.op = "compare" =>
        /\ last.ret[1] = (/\ self.size = other.size
                          /\ Len(self._stack) = Len(other._stack)
                          /\ \A i \in 1..Len(self._stack) :
                                 Entries(self)[i] = Entries(other)[i])
        /\ last.ret[2] = ~last.ret[1]
        /\ self = prev

\* two stores of one capacity with the same two entries in another order have
\* been compared, and found unequal
C11_Witness ==
    /\ last.op = "compare"
    /\ self.size = other.size
    /\ self._data = other._data
    /\ Len(self._stack) = 2
    /\ self._stack # other._stack
    /\ last.ret = <<FALSE, TRUE>>

\* ------------------------------------------------------------------ C12

\* C12: two stores built with the same capacity and given the same writes
\* compare equal after every step; when one of them has then made one more
\* read or write that changed its order, they compare unequal.
C12_DeterminismUnderEquality ==
    last.op = "compare" =>
        /\ sync = "same" => last.ret = <<TRUE, FALSE>>
        /\ (sync = "access" /\ self._stack # other._stack) => last.ret = <<FALSE, TRUE>>

\* after the same writes one store has read its older key: the key sets are
\* the same, the orders differ, and the comparison has been made
C12_Witness ==
    /\ last.op = "compare"
    /\ sync = "access"
    /\ Range(self._stack) = Range(other._stack)
    /\ self._data = other._data
    /\ Len(self._stack) = 2
    /\ self._stack # other._stack

\* ------------------------------------------------------------------ C13

\* what a whole traversal of a kind yields: the keys, the values or the pairs
\* of the store in recency order, oldest first
Yielded(s, kind) ==
    [i \in 1..Len(s._stack) |->
        IF kind \in {"iter", "keys"} THEN s._stack[i]
        ELSE IF kind = "values" THEN s._data[s._stack[i]]
        ELSE <<s._stack[i], s._data[s._stack[i]]>>]

\* C13: a traversal of iter(cache), keys(), values() or items() yields the
\* entries in recency order, oldest first, each value the one stored for its
\* key: all of them when run to the end, the first n when stopped after n; and
\* it leaves the stack, the dict and the capacity as they were.
C13_TraversalOrder ==
    last.op = "traverse" =>
        LET kind == last.args[1]
            n == last.args[2]
            all == Yielded(prev, kind)
        IN /\ Succeeded
           /\ last.ret = SubSeq(all, 1, IF n < Len(all) THEN n ELSE Len(all))
           /\ self._stack = prev._stack
           /\ self._data = prev._data
           /\ self.size = prev.size

\* the values of a store of three entries have been traversed to the end
C13_Witness ==
    /\ last.op = "traverse"
    /\ last.args[1] = "values"
    /\ Len(prev._stack) = 3
    /\ Len(last.ret) = 3
    /\ prev._data[prev._stack[1]] # prev._data[prev._stack[3]]

\* ------------------------------------------------------------------ C14

\* C14: on a store without entries lru and mru raise an error (IndexError)
\* and return no key; on a store with entries they return the first and the
\* last key of the stack; either way the store is left as it was.  A delete of
\* the only entry leaves no entry, and lru and mru then raise.
C14_EmptyStoreAccessors ==
    /\ [](last.op \in {"lru", "mru"} =>
            /\ self = prev
            /\ IF Len(prev._stack) = 0
               THEN last.exc = "IndexError" /\ last.ret = <<>>
               ELSE /\ Succeeded
                    /\ last.ret = <<prev._stack[IF last.op = "lru" THEN 1
                                                ELSE Len(prev._stack)]>>)
    /\ [][(last'.op = "delete" /\ last'.exc = "None" /\ Len(self._stack) = 1)
            => /\ filled(self') = 0
               /\ lru(self').exc = "IndexError"
               /\ mru(self').exc = "IndexError"]_vars

\* mru has been asked of a store without entries, and has raised
C14_Witness ==
    /\ last.op = "mru"
    /\ Len(prev._stack) = 0
    /\ last.exc = "IndexError"

\* ------------------------------------------------------------------ C17

\* C17: no call but resize changes the capacity: not write, read, delete,
\* peek, contains, a traversal, lru, mru, filled, nor reading size; assigning
\* to size raises AttributeError and leaves the store as it was; after a
\* resize(n) that returned, size reads n.
C17_CapacityOnlyByResize ==
    [][/\ last'.op # "resize" => self'.size = self.size
       /\ last'.op = "setsize" => (last'.exc = "AttributeError" /\ self' = self)
       /\ (last'.op = "resize" /\ last'.exc = "None")
             => size_getter(self') = Return(self', <<last'.args[1]>>)]_vars

\* a valid size other than the capacity has been assigned to a store with
\* entries
C17_Witness ==
    /\ last.op = "setsize"
    /\ last.args[1] >= 1
    /\ last.args[1] # prev.size
    /\ Len(prev._stack) >= 1

\* ------------------------------------------------------------------ C15

\* the store after the pairs have been written one by one, the last pair last
RECURSIVE WrittenInTurn(_, _)
WrittenInTurn(s, pairs) ==
    IF pairs = <<>> THEN s
    ELSE LET n == Len(pairs)
         IN __setitem__(WrittenInTurn(s, SubSeq(pairs, 1, n - 1)),
                        pairs[n][1], pairs[n][2]).self

\* C15: a store built with a capacity of at least 1 from a sequence of pairs
\* (keys may repeat, the sequence may be longer than the capacity) has the
\* capacity, the dict and the stack of an empty store of that capacity after a
\* write of each pair in turn.
C15_ConstructionIsSequentialWrites ==
    (last.op = "new" /\ last.args[1] >= 1 /\ last.args[2][1] = "pairs") =>
        /\ Succeeded
        /\ self = WrittenInTurn([size |-> last.args[1], _stack |-> <<>>, _data |-> <<>>],
                                last.args[2][2])

\* a store of capacity one has been built from two pairs of one key with two
\* values
C15_Witness ==
    /\ last.op = "new"
    /\ last.args[1] = 1
    /\ last.args[2][1] = "pairs"
    /\ Len(last.args[2][2]) = 2
    /\ last.args[2][2][1][1] = last.args[2][2][2][1]
    /\ last.args[2][2][1][2] # last.args[2][2][2][2]

\* ------------------------------------------------------------------ C16

\* C16: a store built from a store S of m entries with a capacity of at least
\* m holds every key of S with the value S holds for it, m entries in all.
C16_ConstructionFromStore ==
    (last.op = "copy" /\ last.args[1] >= Len(prev._stack)) =>
        /\ Succeeded
        /\ \A k \in DOMAIN prev._data :
              k \in DOMAIN other._data /\ other._data[k] = prev._data[k]
        /\ Len(other._stack) = Len(prev._stack)

\* ------------------------------------------------------------------ C18

\* C18: a write removes at most one key that was present; none when its key
\* was present (the keys and their number stay, even in a full store); none
\* when its key was absent and the store not full (one entry more); and never
\* the key it writes.
C18_AtMostOneEviction ==
    last.op = "write" =>
        LET before == DOMAIN prev._data
            after == DOMAIN self._data
        IN /\ Cardinality(before \ after) <= 1
           /\ LastKey \in before
                 => (after = before /\ Len(self._stack) = Len(prev._stack))
           /\ (LastKey \notin before /\ Len(prev._stack) < prev.size)
                 => (/\ after = before \cup {LastKey}
                     /\ Len(self._stack) = Len(prev._stack) + 1)
           /\ LastKey \in after
           /\ LastKey \in Range(self._stack)

\* the oldest key of a full store of two entries has been written again
C18_Witness ==
    /\ last.op = "write"
    /\ Len(prev._stack) = 2
    /\ prev.size = 2
    /\ prev._stack[1] = LastKey

\* ------------------------------------------------------------------ C20

\* C20: after a write(key, value) every other key still present was present
\* before and keeps its value, and the other keys that remain keep their
\* order: without the written key, the stack is what it was, or what it was
\* less its oldest key.
C20_WriteFrame ==
    last.op = "write" =>
        LET was == Without(prev._stack, LastKey)
            is == Without(self._stack, LastKey)
        IN /\ \A x \in (DOMAIN self._data) \ {LastKey} :
                 x \in DOMAIN prev._data /\ self._data[x] = prev._data[x]
           /\ is = SelectSeq(was, LAMBDA x : x \in DOMAIN self._data)
           /\ is = was \/ (was # <<>> /\ is = Tail(was) /\ was[1] = prev._stack[1])
           /\ self.size = prev.size

\* the oldest of three keys has been written again with another value
C20_Witness ==
    /\ last.op = "write"
    /\ Len(prev._stack) = 3
    /\ prev._stack[1] = LastKey
    /\ prev._data[LastKey] # LastValue
    /\ Len(self._stack) = 3

\* ------------------------------------------------------------------ C19

\* the place of a key in the access history: the later, the higher
AccessTime(key) == CHOOSE i \in 1..Len(accessed) : accessed[i] = key

\* C19: whatever writes, reads, peeks, membership tests, traversals, deletes
\* and resizes were made, every key of the stack has been accessed and the
\* stack lists its keys in strictly ascending order of their latest write or
\* read that returned; and every key a write or a resize removed was accessed
\* before every key that remains.
C19_LruPolicy ==
    /\ \A i \in 1..Len(self._stack) : self._stack[i] \in Range(accessed)
    /\ \A i, j \in 1..Len(self._stack) :
          i < j => AccessTime(self._stack[i]) < AccessTime(self._stack[j])
    /\ last.op \in {"write", "resize"} =>
          \A e \in last.dropped : \A k \in Range(self._stack) :
              e \in Range(accessed) /\ AccessTime(e) < AccessTime(k)

\* a resize has removed two keys and kept one, after a read had made the
\* order of the stack differ from the order of the first writes
C19_Witness ==
    /\ last.op = "resize"
    /\ Cardinality(last.dropped) = 2
    /\ Len(self._stack) = 1
    /\ Len(accessed) = 3

====
